---- MODULE Spec2Model ----
(***************************************************************************)
(* Resource validation, file finalization and deletion in mev-backend:     *)
(* api/utilities/resource_utilities.py and api/utilities/basic_utils.py.   *)
(*                                                                         *)
(* The specifications share the state:                                     *)
(*   Spec           creation and type-change requests, validation jobs     *)
(*   SpecWorkspace  workspace copies and deletes                           *)
(*   SpecMove       move_resource called by concurrent workers             *)
(*   SpecMoveSeq    move_resource called by one worker at a time           *)
(*   SpecShared     check_for_shared_resource_file over bounded tables     *)
(*   SpecTable      validate_type of the table classes over bounded files  *)
(*   SpecInstance   calls on one resource-type instance and one file       *)
(*   SpecDir        make_local_directory called by concurrent workers      *)
(*   SpecRace       validation jobs racing on one never-validated resource *)
(***************************************************************************)
EXTENDS Naturals, Sequences, FiniteSets, TLC

VARIABLES
    fs,         \* the file system: path -> content, defined on existing paths
    dirs,       \* the directories that exist
    resources,  \* the Resource table: pk -> record, defined on stored pks
    metadata,   \* the ResourceMetadata table: pk -> record
    jobs,       \* type-change requests in progress, validation jobs, move workers
    deleteq,    \* paths handed to the asynchronous delete_file task
    used,       \* pks of resources some operation has used (operation registry)
    response,   \* the latest delete response or refused change request
    nextPk      \* source of fresh primary keys

vars == <<fs, dirs, resources, metadata, jobs, deleteq, used, response, nextPk>>

----------------------------------------------------------------------------
(* Bounds of the model *)

MaxRes == 2     \* Resource records ever created in Spec
MaxJobs == 3    \* validation jobs ever dispatched
MaxRecords == 3 \* Resource records ever stored in SpecWorkspace
MaxWorkers == 2 \* workers calling move_resource in SpecMove
MaxMetaRows == 2 \* ResourceMetadata rows a resource starts with in SpecWorkspace

----------------------------------------------------------------------------
(* Paths.  A path is a directory and a basename; the basename is the       *)
(* sequence of its characters, so that prepending the text of an integer   *)
(* is the concatenation the code performs.                                 *)

EmptyPath == [d |-> "", b |-> <<>>]

PathLen(p) == Len(p.b) + (IF p.d = "" THEN 0 ELSE 1)

Exists(files, p) == p \in DOMAIN files

RemoveFile(files, p) == [q \in (DOMAIN files) \ {p} |-> files[q]]

\* '%d' % i : the decimal digits of i, most significant first
RECURSIVE Digits(_)
Digits(i) == IF i < 10 THEN <<ToString(i)>>
             ELSE Digits(i \div 10) \o <<ToString(i % 10)>>

----------------------------------------------------------------------------
(* Records *)

Null == "None"

\* An in-memory Resource instance that has not been loaded
NoResource == [path |-> EmptyPath, resource_type |-> Null, status |-> "",
               is_active |-> FALSE, is_public |-> FALSE, workspace |-> 0]

\* The frame of a worker: its position, the job's arguments, the Resource
\* instance it holds, and the locals of move_resource.
IdleFrame == [pc |-> "idle", pk |-> 0, requested |-> Null,
              resource |-> NoResource, loaded |-> NoResource,
              source |-> EmptyPath, arg_dest |-> EmptyPath, dest |-> EmptyPath,
              i |-> 0, ret |-> EmptyPath, exc |-> "none", msg |-> "",
              table |-> "none", order |-> 0]

\* A job that has ended keeps its arguments and its outcome
Ended(f, pc) == [IdleFrame EXCEPT !.pc = pc, !.pk = f.pk, !.requested = f.requested,
                                  !.msg = f.msg, !.exc = f.exc, !.order = f.order]

MaxOf(S) == IF S = {} THEN 0 ELSE CHOOSE x \in S : \A y \in S : y <= x

----------------------------------------------------------------------------
(* move_resource(source, dest), one step per file-system call *)

\* Entry and the check that the source exists
MoveEnter(f, files, source, dest) ==
    IF ~Exists(files, source)
    THEN [f EXCEPT !.pc = "mv_raised", !.exc = "FileNotFoundError",
                   !.source = source, !.arg_dest = dest, !.dest = dest, !.i = 0]
    ELSE [f EXCEPT !.pc = "mv_check", !.exc = "none",
                   !.source = source, !.arg_dest = dest, !.dest = dest, !.i = 0]

\* (a variant of NextDest that starts counting at 1)
NextDestFromOne(dest, i) == [d |-> dest.d, b |-> Digits(i + 1) \o dest.b]

\* The body of the while loop: prepend the counter to the basename of the
\* destination tried last
NextDest(dest, i) == [d |-> dest.d, b |-> Digits(i) \o dest.b]

\* while os.path.exists(dest): one evaluation of the condition, and the body
MoveDestCheck(j) ==
    /\ j \in DOMAIN jobs
    /\ jobs[j].pc = "mv_check"
    /\ LET f == jobs[j] IN
       jobs' = [jobs EXCEPT ![j] =
                  IF Exists(fs, f.dest)
                  THEN [f EXCEPT !.dest = NextDest(f.dest, f.i), !.i = f.i + 1]
                  ELSE [f EXCEPT !.pc = "mv_rename"]]
    /\ UNCHANGED <<fs, dirs, resources, metadata, deleteq, used, response, nextPk>>

\* os.rename(source, dest): what the call can do.  A missing source raises
\* FileNotFoundError; the operating system may refuse with PermissionError;
\* an existing destination is replaced on POSIX and raises FileExistsError
\* on Windows.
OsRename(files, source, dest) ==
    IF ~Exists(files, source)
    THEN {[fs |-> files, exc |-> "FileNotFoundError"]}
    ELSE {[fs |-> files, exc |-> "PermissionError"]}
         \cup {[fs |-> (dest :> files[source]) @@ RemoveFile(files, source),
                exc |-> "none"]}
         \cup (IF Exists(files, dest)
               THEN {[fs |-> files, exc |-> "FileExistsError"]} ELSE {})

\* try: os.rename(source, dest); return dest / except ...: raise ex
MoveRename(j) ==
    /\ j \in DOMAIN jobs
    /\ jobs[j].pc = "mv_rename"
    /\ \E out \in OsRename(fs, jobs[j].source, jobs[j].dest) :
          /\ fs' = out.fs
          /\ jobs' = [jobs EXCEPT ![j] =
                        IF out.exc = "none"
                        THEN [jobs[j] EXCEPT !.pc = "mv_returned", !.ret = jobs[j].dest]
                        ELSE [jobs[j] EXCEPT !.pc = "mv_raised", !.exc = out.exc]]
    /\ UNCHANGED <<dirs, resources, metadata, deleteq, used, response, nextPk>>

----------------------------------------------------------------------------
(* SpecMove: workers calling move_resource directly *)

UploadDir == "upload"
UserDir == "user"

\* The files the workers move, each with its own content
MoveSources == {[d |-> UploadDir, b |-> <<"x">>], [d |-> UploadDir, b |-> <<"y">>]}

SourceContent(p) == IF p.b = <<"x">> THEN "fx" ELSE "fy"

MoveDest == [d |-> UserDir, b |-> <<"b">>]

\* Names that may already be taken in the destination directory
TakenNames == {<<"b">>, <<"0", "b">>, <<"1", "b">>, <<"1", "0", "b">>}

InitMove ==
    /\ \E taken \in SUBSET TakenNames :
          fs = [p \in MoveSources \cup {[d |-> UserDir, b |-> n] : n \in taken} |->
                   IF p \in MoveSources THEN SourceContent(p) ELSE "old"]
    /\ dirs = {UploadDir, UserDir}
    /\ resources = <<>>
    /\ metadata = <<>>
    /\ jobs = [j \in 1..MaxWorkers |-> IdleFrame]
    /\ deleteq = {}
    /\ used = {}
    /\ response = "none"
    /\ nextPk = 1

MoveInProgress(j) == jobs[j].pc \in {"mv_check", "mv_rename"}

\* A worker calls move_resource(source, MoveDest)
MoveCall(j, source) ==
    /\ j \in DOMAIN jobs
    /\ jobs[j].pc = "idle"
    /\ jobs' = [jobs EXCEPT ![j] = MoveEnter(@, fs, source, MoveDest)]
    /\ UNCHANGED <<fs, dirs, resources, metadata, deleteq, used, response, nextPk>>

\* The same call, made only while no other call is in progress
MoveCallSeq(j, source) ==
    /\ \A k \in DOMAIN jobs : ~MoveInProgress(k)
    /\ MoveCall(j, source)

NextMove ==
    \E j \in 1..MaxWorkers :
        \/ \E s \in MoveSources : MoveCall(j, s)
        \/ MoveDestCheck(j)
        \/ MoveRename(j)

NextMoveSeq ==
    \E j \in 1..MaxWorkers :
        \/ \E s \in MoveSources : MoveCallSeq(j, s)
        \/ MoveDestCheck(j)
        \/ MoveRename(j)

SpecMove == InitMove /\ [][NextMove]_vars

SpecMoveSeq == InitMove /\ [][NextMoveSeq]_vars

----------------------------------------------------------------------------
(* The resource life cycle *)

\* Resource.VALIDATING and Resource.READY
VALIDATING == "validating"
READY == "ready"

\* The resource types of the model (keys of RESOURCE_MAPPING)
Types == {"TBL", "MTX", "ANN", "FT"}

\* What an uploaded file holds: a table of numbers, or a table with text cells
Contents == {"num", "txt"}

Workspaces == {1}

PARSE_ERROR == "parse_error"
PARSER_NOT_FOUND_ERROR == "parser_not_found"
NON_NUMERIC_ERROR == "non_numeric"

\* Where an upload of resource pk is first stored, and where it goes:
\* <USER_STORAGE_DIR>/<owner uuid>/<resource uuid>.<name>
UploadPath(pk) == [d |-> UploadDir, b |-> <<"u", ToString(pk), ".", "tsv">>]
FinalPath(pk) == [d |-> UserDir, b |-> <<ToString(pk), ".", "f", ".", "tsv">>]

\* get_reader: the parser is chosen by the extension after the last dot
HasParser(p) == Len(p.b) > 0 /\ p.b[Len(p.b)] \in {"tsv", "tab", "bed", "vcf", "csv", "xls", "xlsx"}

\* validate_type of the class of rtype on the file at path: <<is_valid, message>>
ValidateType(files, path, rtype) ==
    IF ~HasParser(path) THEN <<FALSE, PARSER_NOT_FOUND_ERROR>>
    ELSE IF ~Exists(files, path) THEN <<FALSE, PARSE_ERROR>>
    ELSE IF rtype = "MTX" /\ files[path] # "num" THEN <<FALSE, NON_NUMERIC_ERROR>>
    ELSE <<TRUE, "">>

\* extract_metadata of the class of rtype on the parsed table: the metadata
\* dict, or Null where the method returns nothing
ExtractMetadata(rtype, table) ==
    IF rtype \in {"MTX", "I_MTX"}
    THEN [parent_operation |-> Null, observation_set |-> table, feature_set |-> table,
          resource |-> Null]
    ELSE IF rtype = "ANN"
    THEN [parent_operation |-> Null, observation_set |-> table, feature_set |-> Null,
          resource |-> Null]
    ELSE IF rtype = "FT"
    THEN [parent_operation |-> Null, observation_set |-> Null, feature_set |-> table,
          resource |-> Null]
    ELSE IF rtype = "BED"
    THEN [parent_operation |-> Null, observation_set |-> Null, feature_set |-> Null,
          resource |-> Null]
    ELSE Null

NoResponse == [kind |-> "none", pk |-> 0, path |-> EmptyPath, code |-> 0,
               delete_file |-> FALSE]

Init ==
    /\ fs = <<>>
    /\ dirs = {UploadDir}
    /\ resources = <<>>
    /\ metadata = <<>>
    /\ jobs = <<>>
    /\ deleteq = {}
    /\ used = {}
    /\ response = NoResponse
    /\ nextPk = 1

\* (a variant that leaves the resource active)
SetValidationStatusKeepsActive(r) == [r EXCEPT !.status = VALIDATING]

\* set_resource_to_validation_status: the instance it saves
SetResourceToValidationStatus(r) ==
    [r EXCEPT !.status = VALIDATING, !.is_active = FALSE]

\* The place of the next validation in the order of dispatch
NextOrder == 1 + MaxOf({jobs[j].order : j \in DOMAIN jobs})

\* api_tasks.validate_resource.delay(pk, requested_type)
Dispatch(pk, rtype) ==
    Append(jobs, [IdleFrame EXCEPT !.pc = "queued", !.pk = pk, !.requested = rtype,
                                   !.order = NextOrder])

\* A creation request: create_resource_from_upload stores a draft (the
\* requested type is not stored), then the resource is set to validating and
\* the validation is dispatched.  hasFile: an upload; otherwise a record made
\* through the API with no path.
CreateResource(content, rtype, hasFile) ==
    /\ nextPk <= MaxRes
    /\ Len(jobs) < MaxJobs
    /\ LET pk == nextPk
           path == IF hasFile THEN UploadPath(pk) ELSE EmptyPath
           draft == [path |-> path, resource_type |-> Null, status |-> "",
                     is_active |-> FALSE, is_public |-> FALSE, workspace |-> 0]
       IN /\ fs' = IF hasFile THEN (path :> content) @@ fs ELSE fs
          /\ resources' = (pk :> SetResourceToValidationStatus(draft)) @@ resources
          /\ jobs' = Dispatch(pk, rtype)
          /\ nextPk' = nextPk + 1
    /\ UNCHANGED <<dirs, metadata, deleteq, used, response>>

\* A request that changes resource_type of a stored resource, up to the
\* point where the handler has loaded the instance: no change is accepted
\* while the resource is inactive (400)
ChangeType(pk, rtype) ==
    /\ pk \in DOMAIN resources
    /\ rtype # resources[pk].resource_type
    /\ IF resources[pk].is_active
       THEN /\ Len(jobs) < MaxJobs
            /\ jobs' = Append(jobs, [IdleFrame EXCEPT !.pc = "requested", !.pk = pk,
                                                      !.requested = rtype,
                                                      !.loaded = resources[pk]])
            /\ UNCHANGED response
       ELSE /\ response' = [kind |-> "put", pk |-> pk, path |-> resources[pk].path,
                            code |-> 400, delete_file |-> FALSE]
            /\ UNCHANGED jobs
    /\ UNCHANGED <<fs, dirs, resources, metadata, deleteq, used, nextPk>>

\* The rest of the accepted request: the loaded instance is set to
\* validating and saved, and the validation is dispatched
ChangeTypeSave(j) ==
    /\ j \in DOMAIN jobs
    /\ jobs[j].pc = "requested"
    /\ jobs[j].pk \in DOMAIN resources
    /\ resources' = [resources EXCEPT
                        ![jobs[j].pk] = SetResourceToValidationStatus(jobs[j].loaded)]
    /\ jobs' = [jobs EXCEPT ![j] = [IdleFrame EXCEPT !.pc = "queued", !.pk = jobs[j].pk,
                                                     !.requested = jobs[j].requested,
                                                     !.order = NextOrder]]
    /\ UNCHANGED <<fs, dirs, metadata, deleteq, used, response, nextPk>>

----------------------------------------------------------------------------
(* The validation job: validate_resource(pk, requested_type) *)

\* The job loads the resource and validates the requested type; a valid
\* resource enters handle_valid_resource, which sets the status to READY and
\* moves the file of a resource that has no type yet.
JobStart(j) ==
    /\ j \in DOMAIN jobs
    /\ jobs[j].pc = "queued"
    /\ LET f == jobs[j] IN
       jobs' = [jobs EXCEPT ![j] =
          IF f.pk \notin DOMAIN resources
          THEN Ended([f EXCEPT !.exc = "DoesNotExist"], "aborted")
          ELSE LET r == resources[f.pk]
                   v == ValidateType(fs, r.path, f.requested)
               IN IF ~v[1]
                  THEN [f EXCEPT !.pc = "invalid", !.resource = r, !.loaded = r,
                                 !.msg = v[2]]
                  ELSE [f EXCEPT !.pc = IF r.resource_type = Null
                                        THEN "to_final" ELSE "hv_tail",
                                 !.resource = [r EXCEPT !.status = READY],
                                 !.loaded = r, !.table = fs[r.path]]]
    /\ UNCHANGED <<fs, dirs, resources, metadata, deleteq, used, response, nextPk>>

\* (a variant that lets the FileExistsError of os.makedirs out)
MakeLocalDirectoryExistingIsError(ds, path) ==
    IF path \in ds THEN {[dirs |-> ds, exc |-> "FileExistsError"]}
    ELSE {[dirs |-> ds \cup {path}, exc |-> "none"], [dirs |-> ds, exc |-> "PermissionError"]}

\* make_local_directory(path): the directory is created, or os.makedirs is
\* refused (PermissionError is raised again); "already exists" is no error
MakeLocalDirectory(ds, path) ==
    {[dirs |-> ds \cup {path}, exc |-> "none"]}
    \cup (IF path \in ds THEN {} ELSE {[dirs |-> ds, exc |-> "PermissionError"]})

\* move_resource_to_final_location up to the entry of move_resource
MoveToFinal(j) ==
    /\ j \in DOMAIN jobs
    /\ jobs[j].pc = "to_final"
    /\ LET f == jobs[j] IN
       \E out \in (IF UserDir \in dirs THEN {[dirs |-> dirs, exc |-> "none"]}
                   ELSE MakeLocalDirectory(dirs, UserDir)) :
          /\ dirs' = out.dirs
          /\ jobs' = [jobs EXCEPT ![j] =
                        IF out.exc # "none"
                        THEN [f EXCEPT !.pc = "mv_raised", !.exc = out.exc]
                        ELSE MoveEnter(f, fs, f.resource.path, FinalPath(f.pk))]
    /\ UNCHANGED <<fs, resources, metadata, deleteq, used, response, nextPk>>

\* Whether extract_metadata of the class of rtype returns its metadata dict
\* (TableResource.extract_metadata has no return statement)
ReturnsMetadata(rtype) == rtype \in {"MTX", "I_MTX", "ANN", "FT", "BED"}

MetadataOf(pk) == {m \in DOMAIN metadata : metadata[m].resource = pk}

\* The primary key the database gives a new metadata row
FreshMetadataPk == 1 + MaxOf(DOMAIN metadata)

\* handle_valid_resource after the move: the path is set when the move
\* returned, an exception of the move is logged and dropped, and the
\* requested type is stored on the instance in either case
AfterMove(f) ==
    IF f.pc = "mv_returned"
    THEN [f.resource EXCEPT !.path = f.ret, !.resource_type = f.requested]
    ELSE [f.resource EXCEPT !.resource_type = f.requested]

\* The rest of handle_valid_resource: extract_metadata from the parsed table
\* and add_metadata_to_resource, which raises on a missing dict, on several
\* metadata rows and on a resource row that is gone
HandleValidTail(j) ==
    /\ j \in DOMAIN jobs
    /\ jobs[j].pc \in {"mv_returned", "mv_raised", "hv_tail"}
    /\ jobs[j].pk # 0
    /\ LET f == jobs[j]
           r == AfterMove(f)
           rows == MetadataOf(f.pk)
           md == [resource |-> f.pk] @@ ExtractMetadata(f.requested, f.table)
       IN IF ~ReturnsMetadata(f.requested)
          THEN /\ jobs' = [jobs EXCEPT ![j] = Ended([f EXCEPT !.exc = "TypeError"], "aborted")]
               /\ UNCHANGED metadata
          ELSE IF Cardinality(rows) > 1 \/ f.pk \notin DOMAIN resources
          THEN /\ jobs' = [jobs EXCEPT ![j] = Ended([f EXCEPT !.exc = "DatabaseError"], "aborted")]
               /\ UNCHANGED metadata
          ELSE /\ jobs' = [jobs EXCEPT ![j] =
                             [f EXCEPT !.pc = "hv_done", !.resource = r,
                                       !.exc = IF f.pc = "mv_raised" THEN f.exc ELSE "none"]]
               /\ metadata' = IF rows = {}
                              THEN (FreshMetadataPk :> md) @@ metadata
                              ELSE [m \in DOMAIN metadata |->
                                      IF m \in rows THEN md ELSE metadata[m]]
    /\ UNCHANGED <<fs, dirs, resources, deleteq, used, response, nextPk>>

\* The job after handle_valid_resource returned: the resource becomes active
\* and the instance is saved
JobSave(j) ==
    /\ j \in DOMAIN jobs
    /\ jobs[j].pc = "hv_done"
    /\ LET f == jobs[j] IN
       /\ resources' = (f.pk :> [f.resource EXCEPT !.is_active = TRUE]) @@ resources
       /\ jobs' = [jobs EXCEPT ![j] = Ended(f, "done")]
    /\ UNCHANGED <<fs, dirs, metadata, deleteq, used, response, nextPk>>

\* (a variant that stores the requested type although validation failed)
JobFailAdoptsType(j) ==
    /\ j \in DOMAIN jobs
    /\ jobs[j].pc = "invalid"
    /\ LET f == jobs[j]
           r == [f.resource EXCEPT !.status = f.msg, !.is_active = FALSE,
                                   !.resource_type = f.requested]
       IN /\ resources' = (f.pk :> r) @@ resources
          /\ jobs' = [jobs EXCEPT ![j] = Ended(f, "failed")]
    /\ UNCHANGED <<fs, dirs, metadata, deleteq, used, response, nextPk>>

\* The job after a failed validation: the message becomes the status, the
\* resource stays inactive, and the instance is saved with the type it had
JobFail(j) ==
    /\ j \in DOMAIN jobs
    /\ jobs[j].pc = "invalid"
    /\ LET f == jobs[j]
           r == [f.resource EXCEPT !.status = f.msg, !.is_active = FALSE]
       IN /\ resources' = (f.pk :> r) @@ resources
          /\ jobs' = [jobs EXCEPT ![j] = Ended(f, "failed")]
    /\ UNCHANGED <<fs, dirs, metadata, deleteq, used, response, nextPk>>

----------------------------------------------------------------------------
(* Workspace copies and deletes *)

\* (a variant that leaves is_public as it was)
CopyOfResourceKeepsPublic(r, ws) == [r EXCEPT !.workspace = ws]

\* copy_resource_to_workspace, the Resource row it saves: pk reset, workspace
\* set, is_public false, every other field as it was
CopyOfResource(r, ws) == [r EXCEPT !.workspace = ws, !.is_public = FALSE]

\* The first row a query for the metadata of pk finds
FirstMetadataOf(pk) == CHOOSE m \in MetadataOf(pk) : \A k \in MetadataOf(pk) : m <= k

\* (a variant that copies the first row found when there are several)
MetadataAfterCopyFirstOfSeveral(pk, newPk) ==
    IF MetadataOf(pk) = {} THEN metadata
    ELSE (FreshMetadataPk :> [metadata[FirstMetadataOf(pk)] EXCEPT !.resource = newPk])
         @@ metadata

\* (a variant that hands the row of the source over to the copy)
MetadataAfterCopyRepointed(pk, newPk) ==
    IF Cardinality(MetadataOf(pk)) = 1
    THEN [metadata EXCEPT ![FirstMetadataOf(pk)].resource = newPk]
    ELSE metadata

\* copy_resource_to_workspace, the ResourceMetadata table it leaves: the row
\* is copied (pk reset, resource set to the copy) when there is exactly one;
\* with no row or several rows an error is logged and nothing is copied
MetadataAfterCopy(pk, newPk) ==
    IF Cardinality(MetadataOf(pk)) = 1
    THEN (FreshMetadataPk :> [metadata[FirstMetadataOf(pk)] EXCEPT !.resource = newPk])
         @@ metadata
    ELSE metadata

\* copy_resource_to_workspace(unattached_resource, workspace)
CopyToWorkspace(pk, ws) ==
    /\ pk \in DOMAIN resources
    /\ resources[pk].workspace = 0
    /\ resources[pk].is_active
    /\ nextPk <= MaxRecords
    /\ resources' = (nextPk :> CopyOfResource(resources[pk], ws)) @@ resources
    /\ metadata' = MetadataAfterCopy(pk, nextPk)
    /\ nextPk' = nextPk + 1
    /\ UNCHANGED <<fs, dirs, jobs, deleteq, used, response>>

\* check_for_resource_operations: the body is "pass", so the call returns
\* None whatever operations have used the resource
CheckForResourceOperations(pk, registry) == "None"

\* (a variant that never reports a shared file)
CheckForSharedNeverShared(pk, path, table) ==
    IF PathLen(path) > 0
    THEN IF {k \in DOMAIN table : table[k].path = path} = {} THEN "Exception" ELSE "False"
    ELSE "None"

\* (a variant that reports a shared file as soon as one record has the path)
CheckForSharedFromOne(pk, path, table) ==
    IF PathLen(path) > 0
    THEN IF {k \in DOMAIN table : table[k].path = path} = {} THEN "Exception" ELSE "True"
    ELSE "None"

\* check_for_shared_resource_file(resource_instance) against the Resource
\* table: "False", "True", "None" (no return statement reached) or "Exception"
CheckForSharedResourceFile(pk, path, table) ==
    IF PathLen(path) > 0
    THEN LET all_resources_with_path == {k \in DOMAIN table : table[k].path = path}
         IN IF all_resources_with_path = {} THEN "Exception"
            ELSE IF Cardinality(all_resources_with_path) = 1
                 THEN IF all_resources_with_path # {pk} THEN "Exception" ELSE "False"
                 ELSE "True"
    ELSE "None"

\* Python truth of a returned value
Truthy(v) == v = "True"

\* A delete request: refused when the resource has been used by an operation;
\* else the file deletion is dispatched unless the file is shared, and the
\* Resource row goes (with its metadata row)
Delete(pk) ==
    /\ pk \in DOMAIN resources
    /\ LET r == resources[pk]
           shared == CheckForSharedResourceFile(pk, r.path, resources)
       IN IF Truthy(CheckForResourceOperations(pk, used))
          THEN /\ response' = [kind |-> "delete", pk |-> pk, path |-> r.path, code |-> 400,
                               delete_file |-> FALSE]
               /\ UNCHANGED <<resources, metadata, deleteq>>
          ELSE IF shared = "Exception"
          THEN /\ response' = [kind |-> "delete", pk |-> pk, path |-> r.path, code |-> 500,
                               delete_file |-> FALSE]
               /\ UNCHANGED <<resources, metadata, deleteq>>
          ELSE /\ deleteq' = IF Truthy(shared) THEN deleteq ELSE deleteq \cup {r.path}
               /\ resources' = [k \in (DOMAIN resources) \ {pk} |-> resources[k]]
               /\ metadata' = [m \in (DOMAIN metadata) \ MetadataOf(pk) |-> metadata[m]]
               /\ response' = [kind |-> "delete", pk |-> pk, path |-> r.path, code |-> 204,
                               delete_file |-> ~Truthy(shared)]
    /\ UNCHANGED <<fs, dirs, jobs, used, nextPk>>

\* The delete_file task: delete_local_file(path); a missing file is logged
DeleteFileTask(p) ==
    /\ p \in deleteq
    /\ fs' = IF Exists(fs, p) THEN RemoveFile(fs, p) ELSE fs
    /\ deleteq' = deleteq \ {p}
    /\ UNCHANGED <<dirs, resources, metadata, jobs, used, response, nextPk>>

\* An operation of a workspace uses a resource of that workspace
UseInOperation(pk) ==
    /\ pk \in DOMAIN resources
    /\ pk \notin used
    /\ resources[pk].workspace # 0
    /\ resources[pk].is_active
    /\ used' = used \cup {pk}
    /\ UNCHANGED <<fs, dirs, resources, metadata, jobs, deleteq, response, nextPk>>

Next ==
    \/ \E c \in Contents, t \in Types, h \in BOOLEAN : CreateResource(c, t, h)
    \/ \E pk \in 1..MaxRes, t \in Types : ChangeType(pk, t)
    \/ \E j \in 1..MaxJobs :
          \/ ChangeTypeSave(j)
          \/ JobStart(j)
          \/ MoveToFinal(j)
          \/ MoveDestCheck(j)
          \/ MoveRename(j)
          \/ HandleValidTail(j)
          \/ JobSave(j)
          \/ JobFail(j)

Spec == Init /\ [][Next]_vars

----------------------------------------------------------------------------
(* SpecWorkspace: copies to workspaces and deletes, over resources whose   *)
(* validation has ended                                                    *)

\* A resource that passed validation as a numeric table and was moved
ReadyResource(pk) ==
    [path |-> FinalPath(pk), resource_type |-> "MTX", status |-> READY,
     is_active |-> TRUE, is_public |-> FALSE, workspace |-> 0]

\* A record made with no path, whose validation found no parser
FailedDraft ==
    [path |-> EmptyPath, resource_type |-> Null, status |-> PARSER_NOT_FOUND_ERROR,
     is_active |-> FALSE, is_public |-> FALSE, workspace |-> 0]

\* The key of the i-th metadata row resource pk starts with
MetaKey(pk, i) == (pk - 1) * MaxMetaRows + i

\* The metadata rows of a validated numeric table; a resource that two jobs
\* validated at once can have more than one, their parent operations differ
InitialMetadataRow(pk, i) ==
    [[resource |-> pk] @@ ExtractMetadata("MTX", "num")
        EXCEPT !.parent_operation = IF i = 1 THEN Null ELSE "op"]

InitWorkspace ==
    /\ \E n \in 1..2 : \E withFile \in SUBSET (1..n) :
       \E public \in SUBSET withFile : \E rows \in [withFile -> 0..MaxMetaRows] :
          /\ resources = [pk \in 1..n |->
                            IF pk \in withFile
                            THEN [ReadyResource(pk) EXCEPT !.is_public = pk \in public]
                            ELSE FailedDraft]
          /\ fs = [p \in {FinalPath(pk) : pk \in withFile} |-> "num"]
          /\ metadata =
                LET keys == {<<pk, i>> \in withFile \X (1..MaxMetaRows) : i <= rows[pk]}
                IN [m \in {MetaKey(k[1], k[2]) : k \in keys} |->
                      LET k == CHOOSE k \in keys : MetaKey(k[1], k[2]) = m
                      IN InitialMetadataRow(k[1], k[2])]
          /\ nextPk = n + 1
    /\ dirs = {UploadDir, UserDir}
    /\ jobs = <<>>
    /\ deleteq = {}
    /\ used = {}
    /\ response = NoResponse

NextWorkspace ==
    \/ \E pk \in 1..MaxRecords, ws \in Workspaces : CopyToWorkspace(pk, ws)
    \/ \E pk \in 1..MaxRecords : Delete(pk)
    \/ \E p \in deleteq : DeleteFileTask(p)
    \/ \E pk \in 1..MaxRecords : UseInOperation(pk)

SpecWorkspace == InitWorkspace /\ [][NextWorkspace]_vars

----------------------------------------------------------------------------
(* Claims about the validation life cycle (Spec) *)

MoveFailed(f) == f.exc \in {"FileNotFoundError", "PermissionError", "FileExistsError"}

\* C1 (as claimed): when the move failed while handle_valid_resource finalized
\* a resource that had no type, the instance it returns still has the path,
\* the resource_type and the status that were loaded.
C1_MoveFailureLeavesRecordUnmodified ==
    \A j \in DOMAIN jobs :
        (jobs[j].pc = "hv_done" /\ MoveFailed(jobs[j]))
        => /\ jobs[j].resource.path = jobs[j].loaded.path
           /\ jobs[j].resource.resource_type = jobs[j].loaded.resource_type
           /\ jobs[j].resource.status = jobs[j].loaded.status

C3_FinalizedOnFirstSuccess ==
    \A pk \in DOMAIN resources :
        resources[pk].resource_type # Null
        => resources[pk].path = FinalPath(pk) /\ Exists(fs, FinalPath(pk))

\* What a request leaves behind: the resource inactive and VALIDATING with the
\* type it had before, and a newly queued validation of pk with type t
RequestPost(pk, t, before) ==
    /\ pk \in DOMAIN resources'
    /\ ~resources'[pk].is_active
    /\ resources'[pk].status = VALIDATING
    /\ resources'[pk].resource_type = before
    /\ \E j \in DOMAIN jobs' :
          /\ jobs'[j].pc = "queued" /\ jobs'[j].pk = pk /\ jobs'[j].requested = t
          /\ (j \notin DOMAIN jobs \/ jobs[j].pc # "queued")

CreateAnswered(t) == \E c \in Contents, h \in BOOLEAN : CreateResource(c, t, h)

ChangeAccepted(j) == jobs[j].pc = "requested" /\ jobs'[j].pc = "queued"

ChangeRefused(pk) ==
    response' # response /\ response'.kind = "put" /\ response'.pk = pk

JobEnded(j) == jobs[j].pc \in {"done", "failed", "aborted"}

\* The validations dispatched for a resource
JobsOf(pk) == {j \in DOMAIN jobs : jobs[j].pk = pk /\ jobs[j].pc # "requested"}

----------------------------------------------------------------------------
(* SpecShared: check_for_shared_resource_file applied to an instance, which *)
(* may be stale, against every small Resource table                         *)

SharedPaths == {EmptyPath, FinalPath(1), FinalPath(2)}

RecordAt(path) == [ReadyResource(1) EXCEPT !.path = path]

InitShared ==
    /\ \E present \in SUBSET (1..MaxRecords) :
          resources \in [present -> {RecordAt(p) : p \in SharedPaths}]
    /\ \E pk \in 1..MaxRecords, p \in SharedPaths :
          jobs = <<[IdleFrame EXCEPT !.pc = "check", !.pk = pk,
                                     !.resource = RecordAt(p)]>>
    /\ fs = <<>>
    /\ dirs = {UserDir}
    /\ metadata = <<>>
    /\ deleteq = {}
    /\ used = {}
    /\ response = NoResponse
    /\ nextPk = MaxRecords + 1

CheckShared(j) ==
    /\ j \in DOMAIN jobs
    /\ jobs[j].pc = "check"
    /\ LET f == jobs[j]
           v == CheckForSharedResourceFile(f.pk, f.resource.path, resources)
       IN /\ jobs' = [jobs EXCEPT ![j] = [f EXCEPT !.pc = "checked",
                                                   !.exc = IF v = "Exception"
                                                           THEN "Exception" ELSE "none",
                                                   !.msg = v]]
    /\ UNCHANGED <<fs, dirs, resources, metadata, deleteq, used, response, nextPk>>

NextShared == \E j \in 1..1 : CheckShared(j)

SpecShared == InitShared /\ [][NextShared]_vars

----------------------------------------------------------------------------
(* Claims about deletes and shared files *)

WithPath(path) == {k \in DOMAIN resources : resources[k].path = path}

\* What the claim says the check answers for an instance and a table
SharedAnswer(pk, path) ==
    IF WithPath(path) = {} THEN "Exception"
    ELSE IF WithPath(path) = {pk} THEN "False"
    ELSE IF Cardinality(WithPath(path)) >= 2 THEN "True"
    ELSE "Exception"

\* C8: for an instance whose path is not empty the check returns False when
\* the one record with that path is the instance itself, True when two or
\* more records have the path, and raises when none has it (or when the one
\* that has it is another record); for an empty path it returns None.
C8_SharedCheckOnNonEmptyPath ==
    \A j \in DOMAIN jobs :
        jobs[j].pc = "checked"
        => IF PathLen(jobs[j].resource.path) > 0
           THEN jobs[j].msg = SharedAnswer(jobs[j].pk, jobs[j].resource.path)
           ELSE jobs[j].msg = "None"

\* C8 (as claimed): for every instance the check returns False when the one
\* record with its path is the instance itself, True when two or more records
\* have the path, and raises when none has it.
C8_SharedCheckOnEveryPath ==
    \A j \in DOMAIN jobs :
        jobs[j].pc = "checked"
        => LET n == Cardinality(WithPath(jobs[j].resource.path))
           IN /\ n = 0 => jobs[j].msg = "Exception"
              /\ WithPath(jobs[j].resource.path) = {jobs[j].pk} => jobs[j].msg = "False"
              /\ n >= 2 => jobs[j].msg = "True"

\* C8 witness: the check has answered True for a path that three records have
C8_Witness ==
    \E j \in DOMAIN jobs :
        /\ jobs[j].pc = "checked"
        /\ jobs[j].msg = "True"
        /\ PathLen(jobs[j].resource.path) > 0
        /\ Cardinality(WithPath(jobs[j].resource.path)) = 3
        /\ jobs[j].pk \in WithPath(jobs[j].resource.path)

OthersWithPath(pk) == WithPath(resources[pk].path) \ {pk}

FileDeleted(p) == p \in DOMAIN fs /\ p \notin DOMAIN fs'

C10_UsedResourceDeleteRefused ==
    (response.kind = "delete" /\ response.pk \in used)
    => /\ response.code = 400
       /\ response.pk \in DOMAIN resources
       /\ ~response.delete_file

----------------------------------------------------------------------------
(* Claims about move_resource *)

Finished(j) == jobs[j].pc \in {"mv_returned", "mv_raised"}

\* C6 (as claimed): two workers that moved distinct existing files to the same
\* destination path both returned, so both files are there, at distinct paths:
\* neither move replaced the file the other one placed.
C6_BothFilesSurvive ==
    \A j, k \in DOMAIN jobs :
        (/\ j # k
         /\ jobs[j].pc = "mv_returned" /\ jobs[k].pc = "mv_returned"
         /\ jobs[j].source # jobs[k].source
         /\ jobs[j].arg_dest = jobs[k].arg_dest)
        => /\ jobs[j].ret # jobs[k].ret
           /\ Exists(fs, jobs[j].ret)
           /\ fs[jobs[j].ret] = SourceContent(jobs[j].source)
           /\ Exists(fs, jobs[k].ret)
           /\ fs[jobs[k].ret] = SourceContent(jobs[k].source)

\* The text the loop has prepended after n collisions: "", "0", "10", "210", ...
RECURSIVE PrependedText(_)
PrependedText(n) == IF n = 0 THEN <<>> ELSE Digits(n - 1) \o PrependedText(n - 1)

\* The n-th name the code tries for dest
Candidate(dest, n) == [d |-> dest.d, b |-> PrependedText(n) \o dest.b]

FirstFreeCandidate(files, dest) ==
    LET n == CHOOSE n \in 0..Cardinality(DOMAIN files) :
                 /\ ~Exists(files, Candidate(dest, n))
                 /\ \A m \in 0..(n - 1) : Exists(files, Candidate(dest, m))
    IN Candidate(dest, n)

\* The name the claim gives: dest if free, else d/<N>b for the smallest N >= 0
\* with d/<N>b free, b the original basename
SmallestNumbered(files, dest) ==
    IF ~Exists(files, dest) THEN dest
    ELSE LET Numbered(n) == [d |-> dest.d, b |-> Digits(n) \o dest.b]
             n == CHOOSE n \in 0..Cardinality(DOMAIN files) :
                     /\ ~Exists(files, Numbered(n))
                     /\ \A m \in 0..(n - 1) : Exists(files, Numbered(m))
         IN Numbered(n)

MoveReturns(j) == jobs[j].pc = "mv_rename" /\ jobs'[j].pc = "mv_returned"

\* C7 (amended): a call that no other call interleaves with and whose rename
\* succeeds moves the file to the first free name of dest, 0+dest, 1+0+dest,
\* 2+1+0+dest, ... (each try prepends the next integer to the basename tried
\* before: d/b, d/0b, d/10b, d/210b) and returns that path.
C7_FirstFreePrependedName ==
    [][\A j \in DOMAIN jobs : MoveReturns(j) =>
          LET f == jobs[j]
              p == FirstFreeCandidate(fs, f.arg_dest)
          IN /\ jobs'[j].ret = p
             /\ Exists(fs', p) /\ fs'[p] = fs[f.source]
             /\ ~Exists(fs', f.source)]_vars

\* C7 (as claimed): the file goes to d/b if free and else to d/<N>b with the
\* smallest N counting from 0 (d/0b, d/1b, d/2b, ...).
C7_SmallestIntegerPrefix ==
    [][\A j \in DOMAIN jobs : MoveReturns(j) =>
          LET f == jobs[j]
              p == SmallestNumbered(fs, f.arg_dest)
          IN /\ jobs'[j].ret = p
             /\ Exists(fs', p) /\ fs'[p] = fs[f.source]
             /\ ~Exists(fs', f.source)]_vars

\* C7 witness: a call that met two collisions returned d/10b
C7_Witness ==
    \E j \in DOMAIN jobs :
        /\ jobs[j].pc = "mv_returned"
        /\ jobs[j].i = 2
        /\ jobs[j].ret = [d |-> UserDir, b |-> <<"1", "0", "b">>]
        /\ Exists(fs, jobs[j].ret)

-----------------------------------------------------------------------------
(* Table validation: validate_type of the classes of resource_types/        *)
(* table_types.py.  A text is the sequence of its characters; the name of a *)
(* dtype is the sequence of its word and its width, with "u" in front for   *)
(* an unsigned one, so that re.match looks at the front of it as the code's *)
(* patterns do.                                                             *)

MaxCols == 2 \* data columns of a table in SpecTable
MaxRows == 2 \* rows of a table in SpecTable

EMPTY_TABLE_ERROR == "empty_table"
TRIVIAL_TABLE_ERROR == "trivial_table"
NUMBERED_COLUMN_NAMES_ERROR == "numbered_column_names"
NUMBERED_ROW_NAMES_ERROR == "numbered_row_names"
NONUNIQUE_ROW_NAMES_ERROR == "nonunique_row_names"
NON_INTEGER_ERROR == "non_integer"
BED_FORMAT_ERROR == "bed_format"
MISSING_HEADER_WARNING == "missing_header"

COMMA_DELIMITED_EXTENSIONS == {"csv"}
TAB_DELIMITED_EXTENSIONS == {"tsv", "tab", "bed", "vcf"}
EXCEL_EXTENSIONS == {"xls", "xlsx"}

\* The classes validate_type is called on
Variants == {"TBL", "MTX", "I_MTX", "ANN", "FT", "BED"}

INT64 == <<"int", "64">>
UINT64 == <<"u", "int", "64">>
FLOAT64 == <<"float", "64">>
OBJECT == <<"object">>

NaN == <<"n", "a", "n">>

\* What a data column holds: integers, whole numbers with a missing value,
\* numbers with a fraction (2.5, or 2.05 with a zero after the point), text,
\* integers above the signed range
ColumnKinds == {"int", "whole", "frac", "cent", "text", "uint"}

\* The label of the data column at position i: a name, or a bare number
ColumnLabel(named, i) == IF named THEN <<"g">> \o Digits(i) ELSE Digits(i)

\* The labels a row can have
RowLabels == {<<"1">>, <<"-", "1">>, <<"3", "p">>, <<"g", "1">>}

\* str(x) of the cell of a column of this kind in row r (r counts from 1)
Cell(kind, r) ==
    IF kind = "int" THEN <<"1">>
    ELSE IF kind = "whole" THEN (IF r = 2 THEN NaN ELSE <<"2", ".", "0">>)
    ELSE IF kind = "frac" THEN <<"2", ".", "5">>
    ELSE IF kind = "cent" THEN <<"2", ".", "0", "5">>
    ELSE IF kind = "uint" THEN <<"9", "9">>
    ELSE <<"g">> \o Digits(r)

\* The parsed tables: the row labels (the index) and the data columns
Tables ==
    {[index |-> idx, columns |-> cols] :
        idx \in UNION {[1..n -> RowLabels] : n \in 0..MaxRows},
        cols \in UNION {[1..n -> [named : BOOLEAN, kind : ColumnKinds]] : n \in 0..MaxCols}}

\* The files: one with an extension no reader is known for, one that no
\* reader can parse, and every table stored tab-delimited
Files ==
    {[ext |-> "txt", readable |-> TRUE,
      table |-> [index |-> <<<<"g", "1">>>>, columns |-> <<[named |-> TRUE, kind |-> "int"]>>]],
     [ext |-> "tsv", readable |-> FALSE, table |-> [index |-> <<>>, columns |-> <<>>]]}
    \cup {[ext |-> "tsv", readable |-> TRUE, table |-> t] : t \in Tables}

\* table.shape
Shape(t) == <<Len(t.index), Len(t.columns)>>

\* table.columns
ColumnNames(t) == [i \in 1..Len(t.columns) |-> ColumnLabel(t.columns[i].named, i)]

\* The entries of data column i, down the rows
Cells(t, i) == [r \in 1..Len(t.index) |-> Cell(t.columns[i].kind, r)]

\* table.dtypes: what pandas infers for data column i
Dtype(t, i) ==
    IF Len(t.index) = 0 THEN OBJECT
    ELSE IF t.columns[i].kind = "int" THEN INT64
    ELSE IF t.columns[i].kind = "uint" THEN UINT64
    ELSE IF t.columns[i].kind \in {"whole", "frac", "cent"} THEN FLOAT64
    ELSE OBJECT

IsDigit(c) == c \in {"0", "1", "2", "3", "4", "5", "6", "7", "8", "9"}

\* re.match('\d+', s): the text begins with a digit
MatchDigits(s) == Len(s) > 0 /\ IsDigit(s[1])

\* The position after the digits that start at position i
RECURSIVE SkipDigits(_, _)
SkipDigits(s, i) == IF i <= Len(s) /\ IsDigit(s[i]) THEN SkipDigits(s, i + 1) ELSE i

\* re.match('\d+\.0', s): digits, a point and a zero at the front of the text
MatchWholeNumber(s) ==
    LET k == SkipDigits(s, 1)
    IN k > 1 /\ k + 1 <= Len(s) /\ s[k] = "." /\ s[k + 1] = "0"

\* re.match('(float|int)\d{0,2}', name) and re.match('int\d{0,2}', name)
MatchDtype(words, name) == Len(name) > 0 /\ name[1] \in words

MatrixTargetPattern == {"float", "int"}
IntegerMatrixTargetPattern == {"int"}

\* TableResource.get_reader, on the extension of the path
GetReader(ext) ==
    IF ext \in COMMA_DELIMITED_EXTENSIONS THEN "read_csv"
    ELSE IF ext \in TAB_DELIMITED_EXTENSIONS THEN "read_table"
    ELSE IF ext \in EXCEL_EXTENSIONS THEN "read_excel"
    ELSE Null

\* (a variant that asks for labels made of digits only)
IndexAllNumbersWholeLabel(names) ==
    \A i \in 1..Len(names) : \A k \in 1..Len(names[i]) : IsDigit(names[i][k])

\* TableResource.index_all_numbers
IndexAllNumbers(names) == \A i \in 1..Len(names) : MatchDigits(names[i])

\* table.index.has_duplicates
HasDuplicates(idx) == \E i \in 1..Len(idx) : \E k \in 1..Len(idx) : i # k /\ idx[i] = idx[k]

\* What a call of validate_type gives: the pair it returns, or the
\* exception that leaves it
Returns(ok, text, cols) == [ok |-> ok, text |-> text, cols |-> cols, exc |-> "none"]
Raises(exc) == [ok |-> FALSE, text |-> Null, cols |-> <<>>, exc |-> exc]
Valid == Returns(TRUE, Null, <<>>)
NotCalled == [ok |-> FALSE, text |-> Null, cols |-> <<>>, exc |-> "not called"]

\* (a variant that looks for duplicate row names before numbered ones)
TableResourceValidateTypeDuplicatesFirst(file) ==
    IF GetReader(file.ext) = Null THEN Returns(FALSE, PARSER_NOT_FOUND_ERROR, <<>>)
    ELSE IF ~file.readable THEN Returns(FALSE, PARSE_ERROR, <<>>)
    ELSE LET t == file.table
         IN IF Shape(t) = <<0, 0>> THEN Returns(FALSE, EMPTY_TABLE_ERROR, <<>>)
            ELSE IF Shape(t)[2] = 0 THEN Returns(FALSE, TRIVIAL_TABLE_ERROR, <<>>)
            ELSE IF IndexAllNumbers(ColumnNames(t))
                 THEN Returns(FALSE, NUMBERED_COLUMN_NAMES_ERROR, <<>>)
            ELSE IF HasDuplicates(t.index)
                 THEN Returns(FALSE, NONUNIQUE_ROW_NAMES_ERROR, <<>>)
            ELSE IF IndexAllNumbers(t.index)
                 THEN Returns(FALSE, NUMBERED_ROW_NAMES_ERROR, <<>>)
            ELSE Valid

\* (a variant without the check for a table that has only an index)
TableResourceValidateTypeNoTrivialCheck(file) ==
    IF GetReader(file.ext) = Null THEN Returns(FALSE, PARSER_NOT_FOUND_ERROR, <<>>)
    ELSE IF ~file.readable THEN Returns(FALSE, PARSE_ERROR, <<>>)
    ELSE LET t == file.table
         IN IF Shape(t) = <<0, 0>> THEN Returns(FALSE, EMPTY_TABLE_ERROR, <<>>)
            ELSE IF IndexAllNumbers(ColumnNames(t))
                 THEN Returns(FALSE, NUMBERED_COLUMN_NAMES_ERROR, <<>>)
            ELSE IF IndexAllNumbers(t.index)
                 THEN Returns(FALSE, NUMBERED_ROW_NAMES_ERROR, <<>>)
            ELSE IF HasDuplicates(t.index)
                 THEN Returns(FALSE, NONUNIQUE_ROW_NAMES_ERROR, <<>>)
            ELSE Valid

\* TableResource.validate_type, read_resource included: no reader raises
\* ParserNotFoundException, a reader that fails raises ParseException, and
\* both are caught here
TableResourceValidateType(file) ==
    IF GetReader(file.ext) = Null THEN Returns(FALSE, PARSER_NOT_FOUND_ERROR, <<>>)
    ELSE IF ~file.readable THEN Returns(FALSE, PARSE_ERROR, <<>>)
    ELSE LET t == file.table
         IN IF Shape(t) = <<0, 0>> THEN Returns(FALSE, EMPTY_TABLE_ERROR, <<>>)
            ELSE IF Shape(t)[2] = 0 THEN Returns(FALSE, TRIVIAL_TABLE_ERROR, <<>>)
            ELSE IF IndexAllNumbers(ColumnNames(t))
                 THEN Returns(FALSE, NUMBERED_COLUMN_NAMES_ERROR, <<>>)
            ELSE IF IndexAllNumbers(t.index)
                 THEN Returns(FALSE, NUMBERED_ROW_NAMES_ERROR, <<>>)
            ELSE IF HasDuplicates(t.index)
                 THEN Returns(FALSE, NONUNIQUE_ROW_NAMES_ERROR, <<>>)
            ELSE Valid

\* Matrix.check_column_types: (colname, i+1) of each column whose dtype the
\* pattern does not match, in column order
RECURSIVE CheckColumnTypesFrom(_, _, _)
CheckColumnTypesFrom(t, words, i) ==
    IF i > Len(t.columns) THEN <<>>
    ELSE (IF MatchDtype(words, Dtype(t, i)) THEN <<>> ELSE <<<<ColumnNames(t)[i], i>>>>)
         \o CheckColumnTypesFrom(t, words, i + 1)

CheckColumnTypes(t, words) == CheckColumnTypesFrom(t, words, 1)

\* Matrix.validate_type
MatrixValidateType(file) ==
    LET super == TableResourceValidateType(file)
        problem_columns == CheckColumnTypes(file.table, MatrixTargetPattern)
    IN IF ~super.ok THEN Returns(FALSE, super.text, super.cols)
       ELSE IF Len(problem_columns) > 0 THEN Returns(FALSE, NON_NUMERIC_ERROR, problem_columns)
       ELSE Valid

\* all(re.match('\d+\.0', str(x)) for x in table[c[0]].dropna())
LooksLikeIntegers(t, c) ==
    \A r \in 1..Len(t.index) :
       Cells(t, c[2])[r] # NaN => MatchWholeNumber(Cells(t, c[2])[r])

\* list.pop(k), positions counted from 1
Pop(list, k) == [n \in 1..(Len(list) - 1) |-> IF n < k THEN list[n] ELSE list[n + 1]]

\* for i,c in enumerate(problem_columns): ... problem_columns.pop(i)
\* The list is popped while it is iterated: the iterator moves on to the
\* next position of the list as it is after the pop
RECURSIVE PopWhileEnumerating(_, _, _)
PopWhileEnumerating(t, problem_columns, k) ==
    IF k > Len(problem_columns) THEN problem_columns
    ELSE IF LooksLikeIntegers(t, problem_columns[k])
         THEN PopWhileEnumerating(t, Pop(problem_columns, k), k + 1)
         ELSE PopWhileEnumerating(t, problem_columns, k + 1)

\* IntegerMatrix.validate_type
IntegerMatrixValidateType(file) ==
    LET super == MatrixValidateType(file)
        problem_columns == CheckColumnTypes(file.table, IntegerMatrixTargetPattern)
        remaining == PopWhileEnumerating(file.table, problem_columns, 1)
    IN IF ~super.ok THEN Returns(FALSE, super.text, super.cols)
       ELSE IF Len(problem_columns) > 0 /\ Len(remaining) > 0
            THEN Returns(FALSE, NON_INTEGER_ERROR, remaining)
       ELSE Valid

\* ElementTable.validate_type (FeatureTable has no validate_type of its own)
ElementTableValidateType(file) ==
    LET super == TableResourceValidateType(file)
    IN IF ~super.ok THEN Returns(FALSE, super.text, super.cols)
       ELSE IF Shape(file.table)[2] = 0 THEN Returns(FALSE, TRIVIAL_TABLE_ERROR, <<>>)
       ELSE Valid

\* (a variant in which the warning makes the result a failure)
AnnotationTableValidateTypeWarningFails(file) ==
    LET super == ElementTableValidateType(file)
        t == file.table
        flagged_columns ==
            {i \in 1..Len(t.columns) :
                t.columns[i].kind = "text"
                /\ \E r \in 1..Len(t.index) : Cells(t, i)[r] = ColumnNames(t)[i]}
    IN IF ~super.ok THEN Returns(FALSE, super.text, super.cols)
       ELSE IF flagged_columns # {} THEN Returns(FALSE, MISSING_HEADER_WARNING, <<>>)
       ELSE Valid

\* AnnotationTable.validate_type: a column whose name is one of its entries
\* gives a warning, not an error
AnnotationTableValidateType(file) ==
    LET super == ElementTableValidateType(file)
        t == file.table
        flagged_columns ==
            {i \in 1..Len(t.columns) :
                t.columns[i].kind = "text"
                /\ \E r \in 1..Len(t.index) : Cells(t, i)[r] = ColumnNames(t)[i]}
    IN IF ~super.ok THEN Returns(FALSE, super.text, super.cols)
       ELSE IF flagged_columns # {} THEN Returns(TRUE, MISSING_HEADER_WARNING, <<>>)
       ELSE Valid

\* The dtype pd.read_table(names=[chrom, start, stop], usecols=[0,1,2]) gives
\* file column k (k = 2, 3): the header line is read as a row, so the column
\* holds the label of data column k-1 and then its entries
BedColumnIsInt(t, k) ==
    /\ ~t.columns[k - 1].named
    /\ t.columns[k - 1].kind = "int" \/ Len(t.index) = 0

\* BEDFile.validate_type: the reader found for the extension is not used, and
\* pd.read_table is called outside any try block
BEDFileValidateType(file) ==
    IF ~file.readable THEN Raises("ParserError")
    ELSE IF Len(file.table.columns) < 2 THEN Raises("ParserError")
    ELSE LET start_col_int == BedColumnIsInt(file.table, 2)
             stop_col_int == BedColumnIsInt(file.table, 3)
         IN IF start_col_int /\ stop_col_int THEN Valid
            ELSE Returns(FALSE, BED_FORMAT_ERROR,
                         (IF start_col_int THEN <<>> ELSE <<2>>)
                         \o (IF stop_col_int THEN <<>> ELSE <<3>>))

\* RESOURCE_MAPPING[resource_type]().validate_type(path)
ValidateTypeOf(variant, file) ==
    IF variant = "TBL" THEN TableResourceValidateType(file)
    ELSE IF variant = "MTX" THEN MatrixValidateType(file)
    ELSE IF variant = "I_MTX" THEN IntegerMatrixValidateType(file)
    ELSE IF variant = "ANN" THEN AnnotationTableValidateType(file)
    ELSE IF variant = "FT" THEN ElementTableValidateType(file)
    ELSE BEDFileValidateType(file)

-----------------------------------------------------------------------------
(* SpecTable: validate_type of each class applied to each file *)

InitTable ==
    /\ \E variant \in Variants : \E file \in Files :
          jobs = <<[IdleFrame EXCEPT !.pc = "call", !.requested = variant,
                                     !.table = file, !.ret = NotCalled]>>
    /\ fs = <<>>
    /\ dirs = {}
    /\ resources = <<>>
    /\ metadata = <<>>
    /\ deleteq = {}
    /\ used = {}
    /\ response = NoResponse
    /\ nextPk = 1

\* The call of validate_type and its outcome
ValidateCall(j) ==
    /\ jobs[j].pc = "call"
    /\ jobs' = [jobs EXCEPT ![j].pc = "returned",
                            ![j].ret = ValidateTypeOf(jobs[j].requested, jobs[j].table)]
    /\ UNCHANGED <<fs, dirs, resources, metadata, deleteq, used, response, nextPk>>

NextTable == \E j \in DOMAIN jobs : ValidateCall(j)

SpecTable == InitTable /\ [][NextTable]_vars

-----------------------------------------------------------------------------
(* SpecInstance: validate_type, get_preview and extract_metadata called in  *)
(* any order on one instance and one unchanged file.  self.table is <<>>    *)
(* while it is None and <<t>> once a table t has been read.                 *)

MaxCalls == 3       \* calls made on the instance
MaxPreviewRows == 6 \* rows of a table in SpecInstance
HeadRows == 5       \* rows DataFrame.head() keeps

\* Row r of a table whose rows are all named, or all numbered
RowLabelAt(named, r) == IF named THEN <<"g">> \o Digits(r) ELSE Digits(r)

InstanceColumns ==
    {<<>>,
     <<[named |-> TRUE, kind |-> "int"]>>,
     <<[named |-> TRUE, kind |-> "text"]>>,
     <<[named |-> FALSE, kind |-> "int"]>>,
     <<[named |-> TRUE, kind |-> "int"], [named |-> TRUE, kind |-> "whole"]>>}

InstanceTables ==
    {[index |-> [r \in 1..n |-> RowLabelAt(named, r)], columns |-> cols] :
        n \in 0..MaxPreviewRows, named \in BOOLEAN, cols \in InstanceColumns}

InstanceFiles ==
    {[ext |-> "txt", readable |-> TRUE,
      table |-> [index |-> <<<<"g", "1">>>>, columns |-> <<[named |-> TRUE, kind |-> "int"]>>]],
     [ext |-> "tsv", readable |-> FALSE, table |-> [index |-> <<>>, columns |-> <<>>]]}
    \cup {[ext |-> "tsv", readable |-> TRUE, table |-> t] : t \in InstanceTables}

\* TableResource.read_resource: self.table after the call and the exception
\* it raises; self.table is assigned only when the reader succeeds
ReadResource(self_table, file) ==
    IF GetReader(file.ext) = Null
    THEN [table |-> self_table, exc |-> "ParserNotFoundException"]
    ELSE IF ~file.readable THEN [table |-> self_table, exc |-> "ParseException"]
    ELSE [table |-> <<file.table>>, exc |-> "none"]

\* self.table after validate_type: BEDFile.validate_type reads into a local
SelfTableAfterValidate(variant, self_table, file) ==
    IF variant = "BED" THEN self_table ELSE ReadResource(self_table, file).table

\* table.head(): the first five rows
TableHead(t) ==
    [index |-> [r \in 1..(IF Len(t.index) < HeadRows THEN Len(t.index) ELSE HeadRows) |-> t.index[r]],
     columns |-> t.columns]

\* (a variant that does not cut the table)
PreviewOfWholeTable(t) ==
    [columns |-> ColumnNames(t), rows |-> t.index,
     values |-> [r \in 1..Len(t.index) |-> [i \in 1..Len(t.columns) |-> Cells(t, i)[r]]]]

\* The dict get_preview builds from table_head
PreviewOf(t) ==
    LET table_head == TableHead(t)
    IN [columns |-> ColumnNames(table_head), rows |-> table_head.index,
        values |-> [r \in 1..Len(table_head.index) |->
                      [i \in 1..Len(table_head.columns) |-> Cells(table_head, i)[r]]]]

\* (a variant that parses only while the instance has no table, and gives
\* an error once it has one)
GetPreviewOnlyOnce(self_table, file) ==
    IF self_table # <<>> THEN [error |-> "An unexpected error occurred."]
    ELSE IF ReadResource(self_table, file).exc = "ParserNotFoundException"
    THEN [error |-> "Parser for the resource not found."]
    ELSE IF ReadResource(self_table, file).exc = "ParseException"
    THEN [error |-> "Parser could not read the resource."]
    ELSE PreviewOf(ReadResource(self_table, file).table[1])

\* TableResource.get_preview, which every table class inherits
GetPreview(self_table, file) ==
    LET read == ReadResource(self_table, file)
    IN IF read.exc = "ParserNotFoundException"
       THEN [error |-> "Parser for the resource not found."]
       ELSE IF read.exc = "ParseException"
       THEN [error |-> "Parser could not read the resource."]
       ELSE PreviewOf(read.table[1])

\* resource_types.get_preview(path, resource_type): get_preview of the class
\* of the type
GetPreviewOfType(resource_type, self_table, file) == GetPreview(self_table, file)

\* get_resource_preview(resource_instance)
GetResourcePreview(resource_type, self_table, file) ==
    IF resource_type = Null
    THEN [info |-> "No preview available since the resource type was not set."]
    ELSE GetPreviewOfType(resource_type, self_table, file)

\* extract_metadata of the class of variant: what it returns (<<>> for None,
\* <<m>> for the dict m) or raises
ExtractMetadataOutcome(variant, self_table, file) ==
    LET validated == ValidateTypeOf(variant, file)
        after == IF self_table = <<>>
                 THEN SelfTableAfterValidate(variant, self_table, file)
                 ELSE self_table
    IN IF self_table = <<>> /\ validated.exc # "none"
       THEN [exc |-> validated.exc, out |-> <<>>]
       ELSE IF self_table = <<>> /\ ~validated.ok
       THEN [exc |-> "UnexpectedTypeValidationException", out |-> <<>>]
       ELSE IF ~ReturnsMetadata(variant) THEN [exc |-> "none", out |-> <<>>]
       ELSE [exc |-> "none", out |-> <<ExtractMetadata(variant, after)>>]

\* Before any call: a new instance of the class (no class for a resource
\* whose type is not set)
InitInstance ==
    /\ \E variant \in Variants \cup {Null} : \E file \in InstanceFiles :
          jobs = <<[IdleFrame EXCEPT !.pc = "instance", !.requested = variant,
                                     !.table = file, !.loaded = <<>>, !.ret = <<>>]>>
    /\ fs = <<>>
    /\ dirs = {}
    /\ resources = <<>>
    /\ metadata = <<>>
    /\ deleteq = {}
    /\ used = {}
    /\ response = NoResponse
    /\ nextPk = 1

\* The calls are made on an instance, and at most MaxCalls of them
CanCall(j) ==
    /\ jobs[j].pc = "instance"
    /\ jobs[j].requested # Null
    /\ Len(jobs[j].ret) < MaxCalls

\* instance.validate_type(path)
CallValidateType(j) ==
    /\ CanCall(j)
    /\ LET f == jobs[j]
           v == ValidateTypeOf(f.requested, f.table)
       IN jobs' = [jobs EXCEPT
             ![j].loaded = IF v.exc = "none"
                           THEN SelfTableAfterValidate(f.requested, f.loaded, f.table)
                           ELSE f.loaded,
             ![j].ret = Append(f.ret, [call |-> "validate_type", exc |-> v.exc, out |-> v])]
    /\ UNCHANGED <<fs, dirs, resources, metadata, deleteq, used, response, nextPk>>

\* instance.get_preview(path)
CallGetPreview(j) ==
    /\ CanCall(j)
    /\ LET f == jobs[j]
       IN jobs' = [jobs EXCEPT
             ![j].loaded = ReadResource(f.loaded, f.table).table,
             ![j].ret = Append(f.ret, [call |-> "get_preview", exc |-> "none",
                                       out |-> GetPreview(f.loaded, f.table)])]
    /\ UNCHANGED <<fs, dirs, resources, metadata, deleteq, used, response, nextPk>>

\* instance.extract_metadata(path)
CallExtractMetadata(j) ==
    /\ CanCall(j)
    /\ LET f == jobs[j]
           m == ExtractMetadataOutcome(f.requested, f.loaded, f.table)
       IN jobs' = [jobs EXCEPT
             ![j].loaded = IF f.loaded = <<>> /\ m.exc \in {"none", "UnexpectedTypeValidationException"}
                           THEN SelfTableAfterValidate(f.requested, f.loaded, f.table)
                           ELSE f.loaded,
             ![j].ret = Append(f.ret, [call |-> "extract_metadata", exc |-> m.exc,
                                       out |-> m.out])]
    /\ UNCHANGED <<fs, dirs, resources, metadata, deleteq, used, response, nextPk>>

\* get_resource_preview on a resource of this type and path
CallGetResourcePreview(j) ==
    /\ jobs[j].pc = "instance"
    /\ Len(jobs[j].ret) < MaxCalls
    /\ LET f == jobs[j]
       IN jobs' = [jobs EXCEPT
             ![j].loaded = IF f.requested = Null THEN f.loaded
                           ELSE ReadResource(f.loaded, f.table).table,
             ![j].ret = Append(f.ret, [call |-> "get_resource_preview", exc |-> "none",
                                       out |-> GetResourcePreview(f.requested, f.loaded, f.table)])]
    /\ UNCHANGED <<fs, dirs, resources, metadata, deleteq, used, response, nextPk>>

NextInstance ==
    \/ \E j \in DOMAIN jobs : CallValidateType(j)
    \/ \E j \in DOMAIN jobs : CallGetPreview(j)
    \/ \E j \in DOMAIN jobs : CallExtractMetadata(j)
    \/ \E j \in DOMAIN jobs : CallGetResourcePreview(j)

SpecInstance == InitInstance /\ [][NextInstance]_vars

-----------------------------------------------------------------------------
(* SpecDir: workers that need a directory.  Each either checks first, as    *)
(* move_resource_to_final_location does, or calls make_local_directory      *)
(* at once; the directory may be there, be created by another worker in     *)
(* between, or be refused by the file system.                               *)

InitDir ==
    /\ \E n \in 1..MaxWorkers : \E present \in SUBSET {UploadDir, UserDir} :
       \E start \in [1..n -> {"dir_check", "dir_make"}] :
       \E path \in [1..n -> {UploadDir, UserDir}] :
          /\ dirs = present
          /\ jobs = [w \in 1..n |->
                       [IdleFrame EXCEPT !.pc = start[w],
                                         !.arg_dest = [d |-> path[w], b |-> <<>>]]]
    /\ fs = <<>>
    /\ resources = <<>>
    /\ metadata = <<>>
    /\ deleteq = {}
    /\ used = {}
    /\ response = NoResponse
    /\ nextPk = 1

\* if not os.path.exists(user_dir): the answer is kept in the frame
DirCheck(w) ==
    /\ jobs[w].pc = "dir_check"
    /\ jobs' = [jobs EXCEPT ![w].pc = IF jobs[w].arg_dest.d \in dirs THEN "dir_done"
                                      ELSE "dir_make",
                            ![w].msg = IF jobs[w].arg_dest.d \in dirs THEN "exists"
                                       ELSE "checked absent"]
    /\ UNCHANGED <<fs, dirs, resources, metadata, deleteq, used, response, nextPk>>

\* make_local_directory(directory_path)
DirMake(w) ==
    /\ jobs[w].pc = "dir_make"
    /\ \E out \in MakeLocalDirectory(dirs, jobs[w].arg_dest.d) :
          /\ dirs' = out.dirs
          /\ jobs' = [jobs EXCEPT ![w].pc = IF out.exc = "none" THEN "dir_done"
                                            ELSE "dir_raised",
                                  ![w].exc = out.exc,
                                  ![w].i = IF jobs[w].arg_dest.d \in dirs THEN 1 ELSE 0]
    /\ UNCHANGED <<fs, resources, metadata, deleteq, used, response, nextPk>>

NextDir ==
    \/ \E w \in DOMAIN jobs : DirCheck(w)
    \/ \E w \in DOMAIN jobs : DirMake(w)

SpecDir == InitDir /\ [][NextDir]_vars

-----------------------------------------------------------------------------
(* Claims about workspace copies (SpecWorkspace) *)

\* The metadata rows of resource pk in a ResourceMetadata table
RowsOf(table, pk) == {m \in DOMAIN table : table[m].resource = pk}

\* The content of a metadata row: its observation and feature sets
ContentOf(row) == <<row.observation_set, row.feature_set, row.parent_operation>>

\* C11: a copy to a workspace stores one new Resource record, under an
\* identity no record had, with the workspace set, is_public false and the
\* path and every other field of the source; no file is written or removed;
\* the source record stays stored as it was, and so does every other record.
C11_CopyIsNewRecordSourceKept ==
    [][\A pk \in DOMAIN resources : \A ws \in Workspaces :
         CopyToWorkspace(pk, ws) =>
           /\ nextPk \notin DOMAIN resources
           /\ DOMAIN resources' = DOMAIN resources \cup {nextPk}
           /\ resources'[nextPk].workspace = ws
           /\ resources'[nextPk].is_public = FALSE
           /\ resources'[nextPk].path = resources[pk].path
           /\ resources'[nextPk].resource_type = resources[pk].resource_type
           /\ resources'[nextPk].status = resources[pk].status
           /\ resources'[nextPk].is_active = resources[pk].is_active
           /\ \A k \in DOMAIN resources : resources'[k] = resources[k]
           /\ fs' = fs]_vars

\* A public unattached resource and its copy in a workspace
C11_Witness ==
    \E pk \in DOMAIN resources : \E c \in DOMAIN resources :
       /\ resources[pk].workspace = 0
       /\ resources[pk].is_public
       /\ resources[c].workspace \in Workspaces
       /\ ~resources[c].is_public
       /\ resources[c].path = resources[pk].path
       /\ Exists(fs, resources[c].path)

\* C12: when the source has no metadata row, or more than one, the copy is
\* still stored and no metadata row is stored for it: the metadata table is
\* left as it was.
C12_NoMetadataCopiedUnlessExactlyOne ==
    [][\A pk \in DOMAIN resources : \A ws \in Workspaces :
         (CopyToWorkspace(pk, ws) /\ Cardinality(RowsOf(metadata, pk)) # 1) =>
           /\ nextPk \in DOMAIN resources'
           /\ resources'[nextPk].workspace = ws
           /\ RowsOf(metadata', nextPk) = {}
           /\ metadata' = metadata]_vars

\* C12 as stated: with no row the copy has none, with several rows the copy
\* has exactly one, equal in content to the first row found.
C12_FirstOfSeveralCopied ==
    [][\A pk \in DOMAIN resources : \A ws \in Workspaces :
         (CopyToWorkspace(pk, ws) /\ Cardinality(RowsOf(metadata, pk)) # 1) =>
           /\ nextPk \in DOMAIN resources'
           /\ IF RowsOf(metadata, pk) = {}
              THEN RowsOf(metadata', nextPk) = {}
              ELSE /\ Cardinality(RowsOf(metadata', nextPk)) = 1
                   /\ \A m \in RowsOf(metadata', nextPk) :
                        ContentOf(metadata'[m]) = ContentOf(metadata[FirstMetadataOf(pk)])]_vars

\* A copy without metadata, of a source that has several rows
C12_Witness ==
    \E pk \in DOMAIN resources : \E c \in DOMAIN resources :
       /\ resources[pk].workspace = 0
       /\ resources[c].workspace \in Workspaces
       /\ resources[c].path = resources[pk].path
       /\ Cardinality(RowsOf(metadata, pk)) > 1
       /\ RowsOf(metadata, c) = {}

\* C13: when the source has exactly one metadata row, the copy gets exactly
\* one row, with the same observation and feature sets under a key no row
\* had, and the row of the source stays as it was.
C13_SingleMetadataRowCopied ==
    [][\A pk \in DOMAIN resources : \A ws \in Workspaces :
         (CopyToWorkspace(pk, ws) /\ Cardinality(RowsOf(metadata, pk)) = 1) =>
           /\ Cardinality(RowsOf(metadata', nextPk)) = 1
           /\ \A m \in RowsOf(metadata', nextPk) :
                /\ m \notin DOMAIN metadata
                /\ \A k \in RowsOf(metadata, pk) :
                     ContentOf(metadata'[m]) = ContentOf(metadata[k])
           /\ RowsOf(metadata', pk) = RowsOf(metadata, pk)
           /\ \A k \in DOMAIN metadata : metadata'[k] = metadata[k]]_vars

\* A source and its copy, each with one metadata row of the same content
C13_Witness ==
    \E pk \in DOMAIN resources : \E c \in DOMAIN resources :
       /\ resources[pk].workspace = 0
       /\ resources[c].workspace \in Workspaces
       /\ resources[c].path = resources[pk].path
       /\ \E k \in RowsOf(metadata, pk) : \E m \in RowsOf(metadata, c) :
            /\ m # k
            /\ RowsOf(metadata, pk) = {k}
            /\ RowsOf(metadata, c) = {m}
            /\ ContentOf(metadata[m]) = ContentOf(metadata[k])

-----------------------------------------------------------------------------
(* Claims about table validation (SpecTable) *)

\* The calls that have returned or raised
ReturnedCalls(variants) ==
    {j \in DOMAIN jobs : jobs[j].pc = "returned" /\ jobs[j].requested \in variants}

\* A reader is known for the extension and it parses the file
Parsed(file) ==
    /\ file.ext \in COMMA_DELIMITED_EXTENSIONS \cup TAB_DELIMITED_EXTENSIONS \cup EXCEL_EXTENSIONS
    /\ file.readable

NoRows(t) == Len(t.index) = 0
NoColumns(t) == Len(t.columns) = 0
AllColumnsNumbered(t) == \A i \in 1..Len(t.columns) : ~t.columns[i].named
AllRowsNumbered(t) == \A r \in 1..Len(t.index) : t.index[r][1] \in {"1", "3"}
SomeRowNameTwice(t) == Cardinality({t.index[r] : r \in 1..Len(t.index)}) < Len(t.index)

\* The error of the first of the five rules the table fails, Null if none
FirstFailingRule(t) ==
    IF NoRows(t) /\ NoColumns(t) THEN EMPTY_TABLE_ERROR
    ELSE IF NoColumns(t) THEN TRIVIAL_TABLE_ERROR
    ELSE IF AllColumnsNumbered(t) THEN NUMBERED_COLUMN_NAMES_ERROR
    ELSE IF AllRowsNumbered(t) THEN NUMBERED_ROW_NAMES_ERROR
    ELSE IF SomeRowNameTwice(t) THEN NONUNIQUE_ROW_NAMES_ERROR
    ELSE Null

C15_ZeroDimensionIsEmptyTable ==
    \A j \in ReturnedCalls({"TBL"}) :
       (Parsed(jobs[j].table)
        /\ (NoRows(jobs[j].table.table) \/ NoColumns(jobs[j].table.table)))
       => jobs[j].ret = Returns(FALSE, EMPTY_TABLE_ERROR, <<>>)

\* C16: TableResource, AnnotationTable and FeatureTable answer every parsed
\* table that has at least one row and no data column with the TrivialTable
\* error.
C16_IndexOnlyTableIsTrivial ==
    \A j \in ReturnedCalls({"TBL", "ANN", "FT"}) :
       (Parsed(jobs[j].table)
        /\ NoColumns(jobs[j].table.table) /\ ~NoRows(jobs[j].table.table))
       => jobs[j].ret = Returns(FALSE, TRIVIAL_TABLE_ERROR, <<>>)

\* C16 as stated: every parsed table with no data column, the one without
\* rows included, is answered with the TrivialTable error.
C16_NoDataColumnIsTrivial ==
    \A j \in ReturnedCalls({"TBL", "ANN", "FT"}) :
       (Parsed(jobs[j].table) /\ NoColumns(jobs[j].table.table))
       => jobs[j].ret = Returns(FALSE, TRIVIAL_TABLE_ERROR, <<>>)

\* An annotation table with rows and no data column, answered TrivialTable
C16_Witness ==
    \E j \in ReturnedCalls({"ANN"}) :
       /\ Parsed(jobs[j].table)
       /\ NoColumns(jobs[j].table.table)
       /\ Len(jobs[j].table.table.index) = 2
       /\ jobs[j].ret = Returns(FALSE, TRIVIAL_TABLE_ERROR, <<>>)

\* The text of a number: digits, or a minus sign and digits
IsNumber(label) ==
    /\ Len(label) > 0
    /\ \A k \in 1..Len(label) : IsDigit(label[k]) \/ (k = 1 /\ label[k] = "-" /\ Len(label) > 1)

C18_ValidateTypeNeverRaises ==
    \A j \in ReturnedCalls(Variants) :
       /\ jobs[j].ret.exc = "none"
       /\ ~Parsed(jobs[j].table) => (~jobs[j].ret.ok /\ jobs[j].ret.text # Null)

\* The dtype of the column is an integer or a floating-point one
NumericDtype(name) == name \in {INT64, UINT64, FLOAT64}

\* (colname, position) of every column that is not numeric, in column order
NonNumericColumns(t) ==
    LET bad == {i \in 1..Len(t.columns) : ~NumericDtype(Dtype(t, i))}
        F[i \in 0..Len(t.columns)] ==
            IF i = 0 THEN <<>>
            ELSE IF i \in bad THEN F[i - 1] \o <<<<ColumnNames(t)[i], i>>>> ELSE F[i - 1]
    IN F[Len(t.columns)]

\* C19: Matrix.validate_type returns a generic failure unchanged; for a
\* table that passes the generic rules it fails exactly when some column has
\* a dtype that is not integer or floating-point, and the message names
\* every such column, and only those, by label and 1-based position.
C19_MatrixFailsExactlyOnNonNumericColumns ==
    \A j \in ReturnedCalls({"MTX"}) :
       LET file == jobs[j].table
           generic == TableResourceValidateType(file)
       IN IF ~generic.ok THEN jobs[j].ret = generic
          ELSE IF NonNumericColumns(file.table) = <<>> THEN jobs[j].ret = Valid
          ELSE jobs[j].ret = Returns(FALSE, NON_NUMERIC_ERROR, NonNumericColumns(file.table))

\* The column is integer-typed, or its entries that are not missing are all
\* whole numbers written like 2.0
IntegerLike(t, i) ==
    \/ Dtype(t, i) = INT64
    \/ /\ Dtype(t, i) = FLOAT64
       /\ \A r \in 1..Len(t.index) : Cells(t, i)[r] \in {NaN, <<"2", ".", "0">>}

\* C20: IntegerMatrix.validate_type accepts every table that passes the
\* Matrix rules and whose columns are all integer-typed or hold only whole
\* numbers and missing values, however many such columns there are and
\* wherever they stand.
C20_IntegerMatrixAcceptsWholeNumberColumns ==
    \A j \in ReturnedCalls({"I_MTX"}) :
       LET file == jobs[j].table
       IN (/\ MatrixValidateType(file).ok
           /\ \A i \in 1..Len(file.table.columns) : IntegerLike(file.table, i))
          => jobs[j].ret = Valid

\* The text of the number has a digit other than 0 after the point
HasFraction(cell) ==
    /\ cell # NaN
    /\ \E k \in 1..Len(cell) : \E n \in 1..Len(cell) :
          k < n /\ cell[k] = "." /\ IsDigit(cell[n]) /\ cell[n] # "0"

\* The columns that hold a value with a fraction
FractionColumns(t) ==
    {i \in 1..Len(t.columns) :
        Dtype(t, i) = FLOAT64 /\ \E r \in 1..Len(t.index) : HasFraction(Cells(t, i)[r])}

\* C21: IntegerMatrix.validate_type rejects with the non-integer error every
\* table that passes the Matrix rules and has a column holding a value with
\* a fraction, and the message names each such column.
C21_FractionColumnsRejected ==
    \A j \in ReturnedCalls({"I_MTX"}) :
       LET file == jobs[j].table
           ret == jobs[j].ret
       IN (MatrixValidateType(file).ok /\ FractionColumns(file.table) # {}) =>
             /\ ~ret.ok
             /\ ret.text = NON_INTEGER_ERROR
             /\ \A i \in FractionColumns(file.table) :
                   \E n \in 1..Len(ret.cols) : ret.cols[n] = <<ColumnNames(file.table)[i], i>>

\* The column holds text and one of its entries is its label
LabelIsAnEntry(t, i) ==
    /\ Dtype(t, i) = OBJECT
    /\ \E r \in 1..Len(t.index) : Cells(t, i)[r] = ColumnNames(t)[i]

IntegerTypedFileColumn(file, k) ==
    /\ file.readable
    /\ Len(file.table.columns) >= k - 1
    /\ BedColumnIsInt(file.table, k)

\* C23: BEDFile.validate_type succeeds exactly when the second and the third
\* column of the file are integer-typed, whatever the generic rules say of
\* the table, and otherwise fails with the BED format error that names
\* exactly those of the columns 2 and 3 that are not.
C23_BedSucceedsIffStartAndStopAreIntegers ==
    \A j \in ReturnedCalls({"BED"}) :
       LET file == jobs[j].table
           failing == (IF IntegerTypedFileColumn(file, 2) THEN <<>> ELSE <<2>>)
                      \o (IF IntegerTypedFileColumn(file, 3) THEN <<>> ELSE <<3>>)
       IN IF failing = <<>> THEN jobs[j].ret = Valid
          ELSE jobs[j].ret = Returns(FALSE, BED_FORMAT_ERROR, failing)

\* The label is made of digits only
AllDigits(label) == Len(label) > 0 /\ \A k \in 1..Len(label) : IsDigit(label[k])

\* C29: TableResource.validate_type returns the numbered-columns error only
\* when every column label is made of digits only, and the numbered-rows
\* error only when every row label is.
C29_NumberedOnlyWhenAllLabelsArePureNumbers ==
    \A j \in ReturnedCalls({"TBL"}) :
       LET t == jobs[j].table.table
           ret == jobs[j].ret
       IN /\ ret.text = NUMBERED_COLUMN_NAMES_ERROR =>
                \A i \in 1..Len(t.columns) : AllDigits(ColumnNames(t)[i])
          /\ ret.text = NUMBERED_ROW_NAMES_ERROR =>
                \A r \in 1..Len(t.index) : AllDigits(t.index[r])

-----------------------------------------------------------------------------
(* Claims about calls on one instance (SpecInstance) *)

\* The calls of this name made so far on instance j, by their position
CallsOf(j, name) == {n \in DOMAIN jobs[j].ret : jobs[j].ret[n].call = name}

\* C24: get_preview never raises: for a file that is parsed it returns a dict
\* with the keys columns, rows and values that holds the first five rows of
\* the table or all of them if there are fewer, and for a file without a
\* reader or one the reader cannot parse a dict with the one key error;
\* get_resource_preview of a resource without a type returns a dict with the
\* one key info, and the file is not parsed.
C24_PreviewNeverRaises ==
    \A j \in DOMAIN jobs :
       LET file == jobs[j].table
           shown == IF Len(file.table.index) < 5 THEN Len(file.table.index) ELSE 5
       IN /\ \A n \in CallsOf(j, "get_preview") :
                LET out == jobs[j].ret[n].out
                IN /\ jobs[j].ret[n].exc = "none"
                   /\ IF Parsed(file)
                      THEN /\ DOMAIN out = {"columns", "rows", "values"}
                           /\ out.columns = ColumnNames(file.table)
                           /\ out.rows = [r \in 1..shown |-> file.table.index[r]]
                           /\ Len(out.values) = shown
                           /\ \A r \in 1..shown : \A i \in 1..Len(file.table.columns) :
                                 out.values[r][i] = Cells(file.table, i)[r]
                      ELSE DOMAIN out = {"error"}
          /\ jobs[j].requested = Null =>
                /\ jobs[j].loaded = <<>>
                /\ \A n \in CallsOf(j, "get_resource_preview") :
                      /\ jobs[j].ret[n].exc = "none"
                      /\ DOMAIN jobs[j].ret[n].out = {"info"}

\* A preview of a table of six rows that shows five of them
C24_Witness ==
    \E j \in DOMAIN jobs : \E n \in CallsOf(j, "get_preview") :
       /\ Parsed(jobs[j].table)
       /\ Len(jobs[j].table.table.index) = 6
       /\ Len(jobs[j].table.table.columns) = 2
       /\ Len(jobs[j].ret[n].out.rows) = 5

\* C25: any two calls of get_preview on the instance return the same, whatever
\* calls were made before them or between them.
C25_PreviewIsIdempotent ==
    \A j \in DOMAIN jobs :
       \A a \in CallsOf(j, "get_preview") : \A b \in CallsOf(j, "get_preview") :
          /\ jobs[j].ret[a].exc = jobs[j].ret[b].exc
          /\ DOMAIN jobs[j].ret[a].out = DOMAIN jobs[j].ret[b].out
          /\ \A k \in DOMAIN jobs[j].ret[a].out :
                jobs[j].ret[a].out[k] = jobs[j].ret[b].out[k]

\* Two previews of a parsed table with a call of validate_type or
\* extract_metadata between them
C25_Witness ==
    \E j \in DOMAIN jobs :
       /\ Parsed(jobs[j].table)
       /\ Len(jobs[j].table.table.index) > 0
       /\ Len(jobs[j].ret) = 3
       /\ jobs[j].ret[1].call = "get_preview"
       /\ jobs[j].ret[2].call \in {"validate_type", "extract_metadata"}
       /\ jobs[j].ret[3].call = "get_preview"
       /\ "rows" \in DOMAIN jobs[j].ret[3].out

\* C26: for a file that is valid for the class, extract_metadata of every
\* class returns a mapping with the keys parent_operation, observation_set,
\* feature_set and resource.
C26_ExtractMetadataReturnsRecord ==
    \A j \in DOMAIN jobs : \A n \in CallsOf(j, "extract_metadata") :
       LET v == ValidateTypeOf(jobs[j].requested, jobs[j].table)
       IN (v.exc = "none" /\ v.ok) =>
             /\ jobs[j].ret[n].exc = "none"
             /\ Len(jobs[j].ret[n].out) = 1
             /\ \A k \in 1..Len(jobs[j].ret[n].out) :
                   DOMAIN jobs[j].ret[n].out[k] =
                      {"parent_operation", "observation_set", "feature_set", "resource"}

\* C28: whenever validate_type returns a false result for the file,
\* extract_metadata raises the unexpected-validation-failure error, whatever
\* calls were made on the instance before.
C28_NoMetadataFromInvalidTable ==
    \A j \in DOMAIN jobs : \A n \in CallsOf(j, "extract_metadata") :
       LET v == ValidateTypeOf(jobs[j].requested, jobs[j].table)
       IN (v.exc = "none" /\ ~v.ok) =>
             jobs[j].ret[n].exc = "UnexpectedTypeValidationException"

-----------------------------------------------------------------------------
(* Claims about make_local_directory (SpecDir) *)

\* C27: a call of make_local_directory for a directory that exists, also one
\* that another worker made after the caller found it absent, returns
\* normally and the directory stays; the only exception a call raises is the
\* permission failure, and then the directory is not there; no call removes
\* a directory.
C27_MakeDirectoryToleratesExisting ==
    [][\A w \in DOMAIN jobs :
         DirMake(w) =>
           /\ dirs \subseteq dirs'
           /\ jobs[w].arg_dest.d \in dirs =>
                 (jobs'[w].pc = "dir_done" /\ jobs'[w].exc = "none" /\ dirs' = dirs)
           /\ jobs'[w].pc = "dir_done" => jobs[w].arg_dest.d \in dirs'
           /\ jobs'[w].pc # "dir_done" =>
                 /\ jobs'[w].pc = "dir_raised"
                 /\ jobs'[w].exc = "PermissionError"
                 /\ jobs[w].arg_dest.d \notin dirs']_vars

\* A worker that found the directory absent, called make_local_directory
\* when another worker had made it, and returned normally
C27_Witness ==
    \E w \in DOMAIN jobs :
       /\ jobs[w].pc = "dir_done"
       /\ jobs[w].msg = "checked absent"
       /\ jobs[w].i = 1
       /\ jobs[w].arg_dest.d \in dirs

-----------------------------------------------------------------------------
(* SpecRace: several validation jobs dispatched for one uploaded resource   *)
(* that has never been validated, run by independent workers.               *)

InitRace ==
    /\ \E content \in Contents : fs = (UploadPath(1) :> content)
    /\ \E ds \in {{UploadDir}, {UploadDir, UserDir}} : dirs = ds
    /\ resources = (1 :> SetResourceToValidationStatus(
                           [path |-> UploadPath(1), resource_type |-> Null, status |-> "",
                            is_active |-> FALSE, is_public |-> FALSE, workspace |-> 0]))
    /\ metadata = <<>>
    /\ \E n \in 2..(MaxWorkers + 1) : \E rtype \in [1..n -> Types] :
          jobs = [j \in 1..n |-> [IdleFrame EXCEPT !.pc = "queued", !.pk = 1,
                                                   !.requested = rtype[j], !.order = j]]
    /\ deleteq = {}
    /\ used = {}
    /\ response = NoResponse
    /\ nextPk = 2

NextRace ==
    \E j \in DOMAIN jobs :
       \/ JobStart(j)
       \/ MoveToFinal(j)
       \/ MoveDestCheck(j)
       \/ MoveRename(j)
       \/ HandleValidTail(j)
       \/ JobSave(j)
       \/ JobFail(j)

SpecRace == InitRace /\ [][NextRace]_vars

-----------------------------------------------------------------------------
(* Claims about concurrent validation jobs (SpecRace) *)

============================================================================
